---- MODULE Spec2Model ----
(***************************************************************************)
(* Checkmate practice: the practice-session state machine, the completion  *)
(* ledger and the random starting-position generator of                    *)
(* client/scripts/esm/game/chess/checkmatepractice.ts.                     *)
(*                                                                         *)
(* Strings the code inspects character by character (the checkmate IDs)    *)
(* are sequences of one-character strings.                                 *)
(***************************************************************************)
EXTENDS Integers, Sequences, FiniteSets, TLC

\* ------------------------------------------------------------------------
\* Variables (checkmatepractice.ts, section "Variables")
\* ------------------------------------------------------------------------

validCheckmates ==
  [ easy |->
      << <<"2","Q","-","1","k">>,
         <<"3","R","-","1","k">>,
         <<"1","Q","1","R","1","B","-","1","k">>,
         <<"1","Q","1","R","1","N","-","1","k">>,
         <<"1","K","2","R","-","1","k">>,
         <<"1","Q","1","C","H","-","1","k">>,
         <<"2","C","H","-","1","k">>,
         <<"3","B","3","B","-","1","k">>,
         <<"1","K","2","B","2","B","-","1","k">>,
         <<"3","A","R","-","1","k">>,
         <<"1","K","1","A","M","-","1","k">> >>,
    medium |->
      << <<"1","K","1","Q","1","B","-","1","k">>,
         <<"1","K","1","Q","1","N","-","1","k">>,
         <<"1","Q","1","B","1","B","-","1","k">>,
         <<"1","Q","1","B","1","N","-","1","k">>,
         <<"1","Q","2","N","-","1","k">>,
         <<"1","K","1","N","2","B","1","B","-","1","k">>,
         <<"1","K","2","N","1","B","1","B","-","1","k">>,
         <<"1","K","1","R","1","B","1","B","-","1","k">>,
         <<"1","K","1","R","1","N","1","B","-","1","k">>,
         <<"1","K","1","A","R","1","R","-","1","k">>,
         <<"1","K","2","A","R","-","1","k">>,
         <<"2","A","M","-","1","r","c">> >>,
    hard |->
      << <<"2","R","1","N","1","P","-","1","k">>,
         <<"1","K","1","R","2","N","-","1","k">>,
         <<"2","K","1","R","-","1","k">>,
         <<"1","K","2","N","6","B","-","1","k">>,
         <<"1","K","1","B","2","H","A","-","1","k">>,
         <<"1","K","1","C","H","1","N","-","1","k">>,
         <<"5","H","U","-","1","k">> >>,
    insane |->
      << <<"1","K","1","Q","1","P","-","1","k">>,
         <<"1","K","3","H","A","-","1","k">>,
         <<"1","K","3","N","R","-","1","k">> >> ]

checkmatesWithBlackRoyalNearer ==
  << <<"1","K","1","Q","1","N","-","1","k">>,
     <<"1","Q","1","R","1","N","-","1","k">>,
     <<"1","Q","2","N","-","1","k">>,
     <<"1","Q","1","B","1","N","-","1","k">>,
     <<"1","K","1","N","2","B","1","B","-","1","k">>,
     <<"1","K","2","N","1","B","1","B","-","1","k">>,
     <<"1","K","1","R","1","N","1","B","-","1","k">>,
     <<"1","K","1","A","R","1","R","-","1","k">>,
     <<"1","K","1","C","H","1","N","-","1","k">>,
     <<"1","K","1","R","2","N","-","1","k">>,
     <<"2","K","1","R","-","1","k">>,
     <<"1","K","2","N","6","B","-","1","k">>,
     <<"1","K","1","B","2","H","A","-","1","k">>,
     <<"1","K","3","H","A","-","1","k">> >>

\* Object.values(validCheckmates).flat()
RECURSIVE FlatFrom(_, _)
FlatFrom(lists, i) ==
  IF i > Len(lists) THEN << >> ELSE lists[i] \o FlatFrom(lists, i + 1)

validCheckmatesFlat ==
  FlatFrom(<< validCheckmates.easy, validCheckmates.medium,
              validCheckmates.hard, validCheckmates.insane >>, 1)

\* Array.prototype.includes
includes(list, item) == \E i \in 1..Len(list) : list[i] = item

\* A value that is undefined / absent, and a value that is present.
Undefined == [defined |-> FALSE, value |-> << >>]
Value(v) == [defined |-> TRUE, value |-> v]

VARIABLES
  inCheckmatePractice,  \* let inCheckmatePractice
  undoingIsLegal,       \* let undoingIsLegal
  completedCheckmates,  \* let completedCheckmates (undefined until first get)
  listeners,            \* are undoMove / restartGame registered on document
  storage,              \* localstorage item 'checkmatePracticeCompletion'
  gamefile,             \* gameslot.getGamefile() and the engine game's config
  selectedID,           \* guipractice.getCheckmateSelectedID()
  lastOp,               \* history: the last operation and the fault it threw
  before                \* history: the state the last operation started in

VARIABLES
  genpc,                \* where generateCheckmateStartingPosition stands
  checkmateID,          \* its argument
  blackroyalnearer,     \* const blackroyalnearer
  startingPosition,     \* const startingPosition: key -> piece type
  blackpieceplaced,     \* let blackpieceplaced
  whitebishopparity,    \* let whitebishopparity
  piecelist,            \* const piecelist
  entryIndex,           \* index in piecelist of the for loop's entry
  amount,               \* let amount
  piece                 \* let piece

genVars == << genpc, checkmateID, blackroyalnearer, startingPosition, blackpieceplaced,
             whitebishopparity, piecelist, entryIndex, amount, piece >>

sessionVars == << inCheckmatePractice, undoingIsLegal, completedCheckmates,
                 listeners, storage, gamefile, selectedID, lastOp, before >>

VARIABLES
  documentTitle,        \* document.title
  timeoutID,            \* let timeoutID
  moveSound_timeoutID,  \* let moveSound_timeoutID
  pageHidden,           \* loadbalancer.isPageHidden()
  flashTimers,          \* pending setTimeout(flashTabNameYOUR_MOVE, ..., parity)
  soundTimers,          \* pending setTimeout(sound.playSound_move, ...)
  tabOp                 \* history: the last operation of the tab-title script

tabVars == << documentTitle, timeoutID, moveSound_timeoutID, pageHidden,
             flashTimers, soundTimers, tabOp >>

\* ------------------------------------------------------------------------
\* Bounds and inputs of the session model
\* ------------------------------------------------------------------------

\* Plies the engine game may reach.
MaxPlies == 4

\* Length of the list found in storage when the page loads.
MaxStored == 1

\* A string that is in no difficulty bucket.
invalidID == <<"9","Z","-","1","k">>

\* The IDs the UI may report as selected or pass to startCheckmatePractice.
SelectableIDs == { validCheckmates.easy[1], validCheckmates.easy[2], invalidID }

\* gamefile.gameConclusion: false, or "<victor> <condition>".
NotConcluded == "false"
Conclusions == { "white checkmate", "black checkmate", "draw stalemate" }

\* No game is loaded: gameslot.getGamefile() is undefined.
NoGame ==
  [loaded |-> FALSE, moves |-> 0, gameConclusion |-> NotConcluded,
   checkmateSelectedID |-> << >>, practice |-> FALSE]

\* The game gameloader.startEngineGame(options) loads.
NewEngineGame(id, practice) ==
  [loaded |-> TRUE, moves |-> 0, gameConclusion |-> NotConcluded,
   checkmateSelectedID |-> id, practice |-> practice]

NoFault == "none"

Snapshot ==
  [inCheckmatePractice |-> inCheckmatePractice,
   undoingIsLegal |-> undoingIsLegal,
   completedCheckmates |-> completedCheckmates,
   listeners |-> listeners,
   storage |-> storage,
   gamefile |-> gamefile,
   selectedID |-> selectedID]

Range(s) == { s[i] : i \in 1..Len(s) }

\* Sequences over S without repetition, of length at most n.
RECURSIVE DistinctSeqs(_, _)
DistinctSeqs(S, n) ==
  IF n = 0 THEN { << >> }
  ELSE LET shorter == DistinctSeqs(S, n - 1)
       IN shorter \cup
          UNION { { Append(s, x) : x \in S \ Range(s) } : s \in shorter }

\* ------------------------------------------------------------------------
\* Collaborators the session consults (spec section 6)
\* ------------------------------------------------------------------------

\* gamefileutility.isGameOver(gamefile)
isGameOver(gf) == gf.gameConclusion # NotConcluded

\* enginegame.isItOurTurn(): we are white, white makes the first ply.
isItOurTurn(gf) == gf.moves % 2 = 0

\* movesequence.rewindMove(gamefile): takes back the last ply.
rewindMove(gf) ==
  [gf EXCEPT !.moves = @ - 1, !.gameConclusion = NotConcluded]

\* winconutil.getVictorAndConditionFromGameConclusion(gameConclusion).victor
getVictor(gameConclusion) ==
  CASE gameConclusion = "white checkmate" -> "white"
    [] gameConclusion = "black checkmate" -> "black"
    [] gameConclusion = "draw stalemate" -> "draw"
    [] OTHER -> "undefined"

\* enginegame.areWeColor(color): options.youAreColor is 'white'.
areWeColor(color) == color = "white"

\* localstorage.loadItem(name) || []
loadItemOrEmpty(store) == IF store.defined THEN store.value ELSE << >>

\* ------------------------------------------------------------------------
\* Functions of checkmatepractice.ts, as functions of the state they read
\* ------------------------------------------------------------------------

\* The validity check letting every ID through.
isValidCheckmate_any(id) == TRUE

\* The check generateCheckmateStartingPosition makes before anything else.
isValidCheckmate(id) == includes(validCheckmatesFlat, id)

\* getCompletedCheckmates: the value of completedCheckmates afterwards.
getCompletedCheckmates(cc, store) ==
  IF ~cc.defined THEN Value(loadItemOrEmpty(store)) ELSE cc

\* markCheckmateBeaten pushing the ID without looking for it first.
markCheckmateBeaten_push(cc, checkmatePracticeID) ==
  IF ~cc.defined
  THEN [fault |-> "Cannot mark checkmate beaten when it was never initialized!",
        list |-> cc.value]
  ELSE [fault |-> NoFault, list |-> Append(cc.value, checkmatePracticeID)]

\* markCheckmateBeaten: the fault it throws and, when it throws none, the
\* list afterwards, which saveCheckmatesBeaten writes to storage.
markCheckmateBeaten(cc, checkmatePracticeID) ==
  IF ~cc.defined
  THEN [fault |-> "Cannot mark checkmate beaten when it was never initialized!",
        list |-> cc.value]
  ELSE [fault |-> NoFault,
        list |-> IF ~includes(cc.value, checkmatePracticeID)
                 THEN Append(cc.value, checkmatePracticeID)
                 ELSE cc.value]

\* eraseCheckmatePracticeProgress deleting the stored item only.
eraseCheckmatePracticeProgress_keepList(cc) == cc

\* eraseCheckmatePracticeProgress without its early return: the list is
\* created empty when it was never loaded.
eraseCheckmatePracticeProgress_create(cc) == Value(<< >>)

\* eraseCheckmatePracticeProgress: the value of completedCheckmates afterwards
\* (the early return when it is undefined, else length = 0).
eraseCheckmatePracticeProgress(cc) ==
  IF ~cc.defined THEN cc ELSE Value(<< >>)

\* registerHumanMove without the branch that withdraws the undo while the
\* engine thinks.
registerHumanMove_keep(inPractice, undoLegal, gf) ==
  IF ~inPractice THEN undoLegal
  ELSE IF ~undoLegal /\ isGameOver(gf) /\ gf.moves > 0 THEN TRUE
  ELSE undoLegal

\* registerHumanMove: the value of undoingIsLegal afterwards.
registerHumanMove(inPractice, undoLegal, gf) ==
  IF ~inPractice THEN undoLegal
  ELSE IF ~undoLegal /\ isGameOver(gf) /\ gf.moves > 0 THEN TRUE
  ELSE IF undoLegal /\ ~isGameOver(gf) THEN FALSE
  ELSE undoLegal

\* registerEngineMove: the value of undoingIsLegal afterwards.
registerEngineMove(inPractice, undoLegal, gf) ==
  IF ~inPractice THEN undoLegal
  ELSE IF ~undoLegal /\ gf.moves > 1 THEN TRUE
  ELSE undoLegal

\* undoMove's condition without the look at undoingIsLegal.
undoAllowed_ignoreLegal(inPractice, undoLegal, gf) ==
  /\ inPractice
  /\ (isItOurTurn(gf) \/ isGameOver(gf))
  /\ gf.moves > 0

\* undoMove's condition for rewinding.
undoAllowed(inPractice, undoLegal, gf) ==
  /\ inPractice
  /\ undoLegal
  /\ (isItOurTurn(gf) \/ isGameOver(gf))
  /\ gf.moves > 0

\* undoMove leaving undoingIsLegal as it found it.
undoMoveLegality_keep(undoLegal) == undoLegal

\* undoMove, when it rewinds: setUndoingIsLegal(false).
undoMoveLegality(undoLegal) == FALSE

\* undoMove rewinding a single ply whoever is to move.
undoRewind_one(gf) == rewindMove(gf)

\* undoMove: the gamefile after its one or two calls of rewindMove.
undoRewind(gf) ==
  LET first == IF isItOurTurn(gf) /\ gf.moves > 1 THEN rewindMove(gf) ELSE gf
  IN rewindMove(first)

Op(name, fault, id, effect) ==
  [op |-> name, fault |-> fault, id |-> id, effect |-> effect]

\* startCheckmatePractice checking the ID before it touches the session.
startCheckmatePractice_checkFirst(checkmateSelectedID, gf, caller) ==
  IF isValidCheckmate(checkmateSelectedID)
  THEN /\ inCheckmatePractice' = TRUE
       /\ undoingIsLegal' = FALSE
       /\ listeners' = TRUE
       /\ gamefile' = NewEngineGame(checkmateSelectedID, TRUE)
       /\ lastOp' = Op(caller, NoFault, checkmateSelectedID, "started")
  ELSE /\ UNCHANGED << inCheckmatePractice, undoingIsLegal, listeners >>
       /\ gamefile' = gf
       /\ lastOp' = Op(caller, "User tried to play invalid checkmate practice.",
                       checkmateSelectedID, "none")

\* startCheckmatePractice(checkmateSelectedID), on the session variables,
\* called from the operation `caller` with the game slot holding gf. The
\* position is generated before gameloader.startEngineGame is reached; an
\* invalid ID throws in between.
startCheckmatePractice(checkmateSelectedID, gf, caller) ==
  /\ inCheckmatePractice' = TRUE
  /\ undoingIsLegal' = FALSE
  /\ listeners' = TRUE
  /\ IF isValidCheckmate(checkmateSelectedID)
     THEN /\ gamefile' = NewEngineGame(checkmateSelectedID, TRUE)
          /\ lastOp' = Op(caller, NoFault, checkmateSelectedID, "started")
     ELSE /\ gamefile' = gf
          /\ lastOp' = Op(caller, "User tried to play invalid checkmate practice.",
                          checkmateSelectedID, "none")

\* onGameUnload leaving undoingIsLegal as it is.
onGameUnload_keepUndo ==
  /\ listeners' = FALSE
  /\ inCheckmatePractice' = FALSE
  /\ undoingIsLegal' = undoingIsLegal

\* onGameUnload, on the session variables.
onGameUnload ==
  /\ listeners' = FALSE
  /\ inCheckmatePractice' = FALSE
  /\ undoingIsLegal' = FALSE

ConclusionIsFalse ==
  "Game conclusion is false, should not have called onEngineGameConclude()"

\* onEngineGameConclude returning quietly, like its other early returns,
\* when the game has no conclusion.
onEngineGameConclude_return(inPractice, gf, cc, selected) ==
  LET victor == getVictor(gf.gameConclusion)
      marked == markCheckmateBeaten(cc, selected)
      leave(fault, effect) ==
        [fault |-> fault, effect |-> effect, id |-> << >>, list |-> cc]
  IN IF ~inPractice THEN leave(NoFault, "ignored")
     ELSE IF ~gf.loaded THEN leave("TypeError: gamefile is undefined", "none")
     ELSE IF gf.gameConclusion = NotConcluded THEN leave(NoFault, "ignored")
     ELSE IF victor = "undefined"
       THEN leave("Victor should never be undefined when concluding an engine game.",
                  "none")
     ELSE IF ~areWeColor(victor) THEN leave(NoFault, "lost")
     ELSE IF marked.fault # NoFault
       THEN [fault |-> marked.fault, effect |-> "none", id |-> selected,
             list |-> cc]
     ELSE [fault |-> NoFault, effect |-> "marked", id |-> selected,
           list |-> Value(marked.list)]

\* onEngineGameConclude: the fault it throws, what it did, the ID it marked
\* and the value of completedCheckmates afterwards; effect "marked" means
\* saveCheckmatesBeaten has written that list to storage.
onEngineGameConclude(inPractice, gf, cc, selected) ==
  LET victor == getVictor(gf.gameConclusion)
      marked == markCheckmateBeaten(cc, selected)
      leave(fault, effect) ==
        [fault |-> fault, effect |-> effect, id |-> << >>, list |-> cc]
  IN IF ~inPractice THEN leave(NoFault, "ignored")
     ELSE IF ~gf.loaded THEN leave("TypeError: gamefile is undefined", "none")
     ELSE IF gf.gameConclusion = NotConcluded THEN leave(ConclusionIsFalse, "none")
     ELSE IF victor = "undefined"
       THEN leave("Victor should never be undefined when concluding an engine game.",
                  "none")
     ELSE IF ~areWeColor(victor) THEN leave(NoFault, "lost")
     ELSE IF marked.fault # NoFault
       THEN [fault |-> marked.fault, effect |-> "none", id |-> selected,
             list |-> cc]
     ELSE [fault |-> NoFault, effect |-> "marked", id |-> selected,
           list |-> Value(marked.list)]

\* ------------------------------------------------------------------------
\* The tab-title script: flashing "YOUR MOVE"
\* ------------------------------------------------------------------------

\* Timers that may be pending at once, of either kind.
MaxTimers == 2

originalDocumentTitle == "originalDocumentTitle"

TabOp(name, ran, parity, hidden, scheduled) ==
  [op |-> name, ranFlash |-> ran, parity |-> parity, hidden |-> hidden,
   scheduled |-> scheduled]

TabIdle ==
  /\ documentTitle = originalDocumentTitle
  /\ timeoutID = "undefined"
  /\ moveSound_timeoutID = "undefined"
  /\ pageHidden = FALSE
  /\ flashTimers = [p \in BOOLEAN |-> 0]
  /\ soundTimers = 0
  /\ tabOp = TabOp("init", FALSE, FALSE, FALSE, FALSE)

\* flashTabNameYOUR_MOVE(parity) with the page hidden or not and the title
\* as it is: the title afterwards, whether a timer has been set for the next
\* toggle, and the parity that timer will pass.
flashTabNameYOUR_MOVE(parity, hidden, title) ==
  LET \* the assignment under if (!loadbalancer.isPageHidden()), which the
      \* assignment after it overwrites
      restored == IF ~hidden THEN originalDocumentTitle ELSE title
  IN [title |-> IF parity THEN "YOUR MOVE" ELSE originalDocumentTitle,
      scheduled |-> TRUE,
      next |-> ~parity]

\* The timers pending once flashTabNameYOUR_MOVE has run on the timers given.
timersAfterFlash(timers, flashed) ==
  IF flashed.scheduled
  THEN [timers EXCEPT ![flashed.next] = @ + 1]
  ELSE timers

\* scheduleMoveSound_timeoutID(): is the timer of the move sound set.
scheduleMoveSound(hidden, resignable) == hidden /\ resignable

\* onMovePlayed({ isOpponents }), called from the operation `caller`.
onMovePlayed(isOpponents, resignable, caller) ==
  IF ~isOpponents
  THEN /\ tabOp' = TabOp(caller, FALSE, FALSE, pageHidden, FALSE)
       /\ UNCHANGED << documentTitle, timeoutID, moveSound_timeoutID,
                       flashTimers, soundTimers >>
  ELSE LET flashed == flashTabNameYOUR_MOVE(TRUE, pageHidden, documentTitle)
       IN /\ documentTitle' = flashed.title
          /\ flashTimers' = timersAfterFlash(flashTimers, flashed)
          /\ timeoutID' = IF flashed.scheduled THEN "set" ELSE timeoutID
          /\ IF scheduleMoveSound(pageHidden, resignable)
             THEN /\ soundTimers' = soundTimers + 1
                  /\ moveSound_timeoutID' = "set"
             ELSE UNCHANGED << soundTimers, moveSound_timeoutID >>
          /\ tabOp' = TabOp(caller, TRUE, TRUE, pageHidden, flashed.scheduled)

\* onGameStart({ isOurMove })
OnGameStart ==
  \E isOurMove \in BOOLEAN, resignable \in BOOLEAN :
    /\ flashTimers[TRUE] + flashTimers[FALSE] < MaxTimers
    /\ soundTimers < MaxTimers
    /\ onMovePlayed(isOurMove, resignable, "onGameStart")
    /\ UNCHANGED pageHidden
    /\ UNCHANGED << sessionVars, genVars >>

\* onMovePlayed({ isOpponents })
OnMovePlayed ==
  \E isOpponents \in BOOLEAN, resignable \in BOOLEAN :
    /\ flashTimers[TRUE] + flashTimers[FALSE] < MaxTimers
    /\ soundTimers < MaxTimers
    /\ onMovePlayed(isOpponents, resignable, "onMovePlayed")
    /\ UNCHANGED pageHidden
    /\ UNCHANGED << sessionVars, genVars >>

\* onGameClose()
OnGameClose ==
  /\ timeoutID' = "undefined"
  /\ tabOp' = TabOp("onGameClose", FALSE, FALSE, pageHidden, FALSE)
  /\ UNCHANGED << documentTitle, moveSound_timeoutID, pageHidden, flashTimers,
                  soundTimers >>
  /\ UNCHANGED << sessionVars, genVars >>

\* A timer set by flashTabNameYOUR_MOVE expires and calls it with the parity
\* the timer was given.
FlashTimerFires ==
  \E parity \in BOOLEAN :
    LET flashed == flashTabNameYOUR_MOVE(parity, pageHidden, documentTitle)
    IN /\ flashTimers[parity] > 0
       /\ documentTitle' = flashed.title
       /\ flashTimers' =
            timersAfterFlash([flashTimers EXCEPT ![parity] = @ - 1], flashed)
       /\ timeoutID' = IF flashed.scheduled THEN "set" ELSE timeoutID
       /\ tabOp' = TabOp("flashTabNameYOUR_MOVE", TRUE, parity, pageHidden,
                         flashed.scheduled)
       /\ UNCHANGED << moveSound_timeoutID, pageHidden, soundTimers >>
       /\ UNCHANGED << sessionVars, genVars >>

\* The timer of the move sound expires: sound.playSound_move runs.
SoundTimerFires ==
  /\ soundTimers > 0
  /\ soundTimers' = soundTimers - 1
  /\ tabOp' = TabOp("playSound_move", FALSE, FALSE, pageHidden, FALSE)
  /\ UNCHANGED << documentTitle, timeoutID, moveSound_timeoutID, pageHidden,
                  flashTimers >>
  /\ UNCHANGED << sessionVars, genVars >>

\* The user leaves the tab or comes back to it.
VisibilityChange ==
  /\ pageHidden' = ~pageHidden
  /\ tabOp' = TabOp("visibilitychange", FALSE, FALSE, pageHidden', FALSE)
  /\ UNCHANGED << documentTitle, timeoutID, moveSound_timeoutID, flashTimers,
                  soundTimers >>
  /\ UNCHANGED << sessionVars, genVars >>

TabNext ==
  \/ OnGameStart
  \/ OnMovePlayed
  \/ OnGameClose
  \/ FlashTimerFires
  \/ SoundTimerFires
  \/ VisibilityChange

\* ------------------------------------------------------------------------
\* generateCheckmateStartingPosition
\* ------------------------------------------------------------------------

Digits == << "0", "1", "2", "3", "4", "5", "6", "7", "8", "9" >>

Letters ==
  { "a", "b", "c", "d", "e", "f", "g", "h", "i", "j", "k", "l", "m",
    "n", "o", "p", "q", "r", "s", "t", "u", "v", "w", "x", "y", "z",
    "A", "B", "C", "D", "E", "F", "G", "H", "I", "J", "K", "L", "M",
    "N", "O", "P", "Q", "R", "S", "T", "U", "V", "W", "X", "Y", "Z" }

DigitChars == { "0", "1", "2", "3", "4", "5", "6", "7", "8", "9" }

isDigit(c) == c \in DigitChars
isLetter(c) == c \in Letters

\* The end (exclusive) of the longest run of digits, and of letters, that
\* starts at i: the greedy [0-9]+ and [a-zA-Z]+ of a regular expression.
RECURSIVE digitsEnd(_, _)
digitsEnd(str, i) ==
  IF i <= Len(str) /\ isDigit(str[i]) THEN digitsEnd(str, i + 1) ELSE i

RECURSIVE lettersEnd(_, _)
lettersEnd(str, i) ==
  IF i <= Len(str) /\ isLetter(str[i]) THEN lettersEnd(str, i + 1) ELSE i

\* str.match(/[0-9]+[a-zA-Z]+/g) from position i on: the matches, left to
\* right, none overlapping.
RECURSIVE matchFrom(_, _)
matchFrom(str, i) ==
  IF i > Len(str) THEN << >>
  ELSE LET d == digitsEnd(str, i)
           l == lettersEnd(str, d)
       IN IF d > i /\ l > d
          THEN << SubSeq(str, i, l - 1) >> \o matchFrom(str, l)
          ELSE matchFrom(str, i + 1)

\* checkmateID.match(/[0-9]+[a-zA-Z]+/g)
matchPieceList(str) == matchFrom(str, 1)

digitValue(c) == CHOOSE v \in 0..9 : Digits[v + 1] = c

\* parseInt of a string of decimal digits.
RECURSIVE parseInt(_)
parseInt(digits) ==
  IF Len(digits) = 0 THEN 0
  ELSE 10 * parseInt(SubSeq(digits, 1, Len(digits) - 1))
       + digitValue(digits[Len(digits)])

\* entry.match(/[0-9]+/)[0] and entry.match(/[a-zA-Z]+/)[0]
entryDigits(entry) == SubSeq(entry, 1, digitsEnd(entry, 1) - 1)
entryLetters(entry) == SubSeq(entry, digitsEnd(entry, 1), Len(entry))

\* formatconverter.ShortToLong_Piece: the piece type of an abbreviation.
ShortToLong_Piece(short) ==
  CASE short = << "K" >> -> "kingsW"
    [] short = << "k" >> -> "kingsB"
    [] short = << "Q" >> -> "queensW"
    [] short = << "R" >> -> "rooksW"
    [] short = << "B" >> -> "bishopsW"
    [] short = << "N" >> -> "knightsW"
    [] short = << "P" >> -> "pawnsW"
    [] short = << "A", "M" >> -> "amazonsW"
    [] short = << "A", "R" >> -> "archbishopsW"
    [] short = << "C", "H" >> -> "chancellorsW"
    [] short = << "H", "A" >> -> "hawksW"
    [] short = << "H", "U" >> -> "huygensW"
    [] short = << "N", "R" >> -> "knightridersW"
    [] short = << "r", "c" >> -> "royalCentaursB"
    [] OTHER -> "undefined"

\* colorutil.getPieceColorFromType: the colour the type's last letter names.
getPieceColorFromType(type) ==
  IF type \in { "kingsB", "royalCentaursB" } THEN "black" ELSE "white"

\* The decimal digits of a natural number, and String(n) of an integer.
RECURSIVE natToString(_)
natToString(n) ==
  IF n < 10 THEN << Digits[n + 1] >>
  ELSE natToString(n \div 10) \o << Digits[(n % 10) + 1] >>

intToString(n) == IF n < 0 THEN << "-" >> \o natToString(-n) ELSE natToString(n)

\* Number(s) of the string of an integer.
stringToInt(str) ==
  IF Len(str) > 0 /\ str[1] = "-" THEN -parseInt(Tail(str)) ELSE parseInt(str)

\* The key "x,y" of the coordinates [x, y], character by character.
keyString(x, y) == intToString(x) \o << "," >> \o intToString(y)

\* key.split(',').map(Number), character by character.
keyCoords(key) ==
  LET comma == CHOOSE i \in 1..Len(key) : key[i] = ","
  IN << stringToInt(SubSeq(key, 1, comma - 1)),
        stringToInt(SubSeq(key, comma + 1, Len(key))) >>

\* The squares a candidate can be drawn on: the window of the white pieces
\* and the bands of the black pieces.
CandidateSquares ==
  ((-5..5) \X (-5..5)) \cup ((12..14) \X (-17..17)) \cup ((8..10) \X (-9..7))

\* The two conversions on the candidate squares, computed once.
keyOfSquare == [c \in CandidateSquares |-> keyString(c[1], c[2])]
squareOfKey ==
  [key \in { keyOfSquare[c] : c \in CandidateSquares } |-> keyCoords(key)]

\* coordutil.getKeyFromCoords([x, y])
getKeyFromCoords(x, y) == keyOfSquare[<< x, y >>]

\* coordutil.getCoordsFromKey(key)
getCoordsFromKey(key) == squareOfKey[key]

\* Math.abs, and the % of JavaScript, whose result has the dividend's sign.
abs(n) == IF n < 0 THEN -n ELSE n
jsRemainder(a, b) == IF a < 0 THEN -((-a) % b) ELSE a % b

\* Math.random() takes the values k / steps, k in 0..steps-1: RandomStepsX
\* of them where an x coordinate is drawn, RandomStepsY of them where the y
\* coordinate of a white piece or the first bishop colour is drawn, and
\* RandomStepsBlackY of them where the y coordinate of a black piece is
\* drawn, from its wider band.
RandomStepsX == 3
RandomStepsY == 2
RandomStepsBlackY == 4
RandomValuesX == 0..(RandomStepsX - 1)
RandomValuesY == 0..(RandomStepsY - 1)
RandomValuesBlackY == 0..(RandomStepsBlackY - 1)

\* Math.floor(Math.random() * n), for the random value k / steps.
randomFloor(k, steps, n) == (k * n) \div steps

\* key in startingPosition
occupied(position, key) == key \in DOMAIN position

\* squareNotInSight without the test for knightriders.
squareNotInSight_lines(square, position) ==
  LET s == getCoordsFromKey(square)
      sx == s[1]
      sy == s[2]
  IN \A key \in DOMAIN position :
       LET c == getCoordsFromKey(key)
           x == c[1]
           y == c[2]
       IN ~(x = sx \/ y = sy \/ abs(sx - x) = abs(sy - y))

\* squareNotInSight(square, startingPosition)
squareNotInSight(square, position) ==
  LET s == getCoordsFromKey(square)
      sx == s[1]
      sy == s[2]
  IN \A key \in DOMAIN position :
       LET c == getCoordsFromKey(key)
           x == c[1]
           y == c[2]
       IN /\ ~(x = sx \/ y = sy \/ abs(sx - x) = abs(sy - y))
          /\ position[key] = "knightridersW" =>
               ~(abs(sx - x) = 2 * abs(sy - y) \/ 2 * abs(sx - x) = abs(sy - y))

\* The white branch's test without the look at the square's occupant.
whiteSquareAccepted_overwrite(position, pieceType, x, y, parity) ==
  ~(pieceType = "bishopsW" /\ jsRemainder(x + y, 2) # parity)

\* The white branch's test for placing the bishop-constrained candidate.
whiteSquareAccepted(position, pieceType, x, y, parity) ==
  /\ ~occupied(position, getKeyFromCoords(x, y))
  /\ ~(pieceType = "bishopsW" /\ jsRemainder(x + y, 2) # parity)

\* The black branch's test.
blackSquareAccepted(position, x, y) ==
  /\ ~occupied(position, getKeyFromCoords(x, y))
  /\ squareNotInSight(getKeyFromCoords(x, y), position)

\* position with position[key] = pieceType
place(position, key, pieceType) ==
  [k \in DOMAIN position \cup { key } |->
     IF k = key THEN pieceType ELSE position[k]]

EmptyPosition == [k \in {} |-> "undefined"]

GenIdle ==
  /\ genpc = "idle"
  /\ checkmateID = << >>
  /\ blackroyalnearer = FALSE
  /\ startingPosition = EmptyPosition
  /\ blackpieceplaced = FALSE
  /\ whitebishopparity = 0
  /\ piecelist = << >>
  /\ entryIndex = 0
  /\ amount = 0
  /\ piece = "undefined"

\* The for loop going on without flipping the parity.
flipParity_keep(parity) == parity

\* The parity counted up instead of toggled.
flipParity_increment(parity) == parity + 1

\* whitebishopparity = 1 - whitebishopparity
flipParity(parity) == 1 - parity

\* The for loop from the entry at index i on, with the parity it has there:
\* an entry whose amount is 0 has no iteration of the while loop, so the
\* parity flips and the next entry is taken; the function returns when no
\* entry is left.
RECURSIVE enterEntry(_, _, _)
enterEntry(list, i, parity) ==
  IF i > Len(list)
  THEN [pc |-> "returned", index |-> i, parity |-> parity,
        amount |-> 0, piece |-> "undefined"]
  ELSE IF parseInt(entryDigits(list[i])) = 0
  THEN enterEntry(list, i + 1, flipParity(parity))
  ELSE [pc |-> "while", index |-> i, parity |-> parity,
        amount |-> parseInt(entryDigits(list[i])),
        piece |-> ShortToLong_Piece(entryLetters(list[i]))]

\* The loop variables take the values of enterEntry.
loopAt(entry) ==
  /\ genpc' = entry.pc
  /\ entryIndex' = entry.index
  /\ whitebishopparity' = entry.parity
  /\ amount' = entry.amount
  /\ piece' = entry.piece

\* The piece is placed on the key: amount -= 1, and when that ends the
\* while loop, the parity flips and the for loop goes on.
placePiece(key) ==
  /\ startingPosition' = place(startingPosition, key, piece)
  /\ IF amount - 1 # 0
     THEN /\ amount' = amount - 1
          /\ UNCHANGED << genpc, entryIndex, whitebishopparity, piece >>
     ELSE loopAt(enterEntry(piecelist, entryIndex + 1,
                            flipParity(whitebishopparity)))

\* The candidate is rejected: the while loop draws again.
drawAgain ==
  UNCHANGED << genpc, startingPosition, entryIndex, whitebishopparity, amount,
               piece >>

\* startCheckmatePractice around its call of the generator: once the
\* generator has returned, gameloader.startEngineGame(options) loads the game
\* of the ID; while it runs, or when it has thrown, no game is loaded.
startEngineGameOnReturn(pc, id) ==
  /\ gamefile' = IF pc = "returned" THEN NewEngineGame(id, TRUE) ELSE gamefile
  /\ UNCHANGED << completedCheckmates, storage, selectedID, lastOp, before >>
  /\ UNCHANGED tabVars

\* startCheckmatePractice(id) calling generateCheckmateStartingPosition(id),
\* up to the first draw of a candidate square.
GenerateCall ==
  \E id \in Range(validCheckmatesFlat) \cup { invalidID } :
  \E r \in RandomValuesY :
    /\ genpc = "idle"
    /\ checkmateID' = id
    /\ IF ~isValidCheckmate(id)
       THEN /\ genpc' = "thrown: User tried to play invalid checkmate practice."
            /\ UNCHANGED << blackroyalnearer, startingPosition, blackpieceplaced,
                            whitebishopparity, piecelist, entryIndex, amount,
                            piece >>
       ELSE /\ blackroyalnearer' = includes(checkmatesWithBlackRoyalNearer, id)
            /\ startingPosition' = EmptyPosition
            /\ blackpieceplaced' = FALSE
            /\ piecelist' = matchPieceList(id)
            /\ loopAt(enterEntry(matchPieceList(id), 1,
                                 randomFloor(r, RandomStepsY, 2)))
    /\ inCheckmatePractice' = TRUE
    /\ undoingIsLegal' = FALSE
    /\ listeners' = TRUE
    /\ startEngineGameOnReturn(genpc', id)

\* One iteration of the while loop for a white piece: a candidate square is
\* drawn around the origin and the piece is placed on it or not.
GenerateIterateWhite ==
  /\ genpc = "while"
  /\ getPieceColorFromType(piece) = "white"
  /\ IF blackpieceplaced
     THEN /\ genpc' = "thrown: Must place all white pieces before placing black pieces."
          /\ UNCHANGED << startingPosition, entryIndex, whitebishopparity,
                          amount, piece >>
     ELSE \E rx \in RandomValuesX, ry \in RandomValuesY :
            LET x == randomFloor(rx, RandomStepsX, IF blackroyalnearer THEN 7 ELSE 11)
                     - (IF blackroyalnearer THEN 3 ELSE 5)
                y == randomFloor(ry, RandomStepsY, IF blackroyalnearer THEN 7 ELSE 11)
                     - (IF blackroyalnearer THEN 3 ELSE 5)
            IN IF whiteSquareAccepted(startingPosition, piece, x, y,
                                      whitebishopparity)
               THEN placePiece(getKeyFromCoords(x, y))
               ELSE drawAgain
  /\ UNCHANGED << checkmateID, blackroyalnearer, blackpieceplaced, piecelist >>
  /\ UNCHANGED << inCheckmatePractice, undoingIsLegal, listeners >>
  /\ startEngineGameOnReturn(genpc', checkmateID)

\* One iteration of the while loop for a black piece: a candidate square is
\* drawn at a distance and the piece is placed on it or not.
GenerateIterateBlack ==
  /\ genpc = "while"
  /\ getPieceColorFromType(piece) # "white"
  /\ \E rx \in RandomValuesX, ry \in RandomValuesBlackY :
       LET x == randomFloor(rx, RandomStepsX, 3) + (IF blackroyalnearer THEN 8 ELSE 12)
           y == randomFloor(ry, RandomStepsBlackY, IF blackroyalnearer THEN 17 ELSE 35)
                - (IF blackroyalnearer THEN 9 ELSE 17)
       IN IF blackSquareAccepted(startingPosition, x, y)
          THEN /\ placePiece(getKeyFromCoords(x, y))
               /\ blackpieceplaced' = TRUE
          ELSE drawAgain /\ UNCHANGED blackpieceplaced
  /\ UNCHANGED << checkmateID, blackroyalnearer, piecelist >>
  /\ UNCHANGED << inCheckmatePractice, undoingIsLegal, listeners >>
  /\ startEngineGameOnReturn(genpc', checkmateID)

GenInit ==
  /\ GenIdle
  /\ TabIdle
  /\ inCheckmatePractice = FALSE
  /\ undoingIsLegal = FALSE
  /\ completedCheckmates = Undefined
  /\ listeners = FALSE
  /\ storage = Undefined
  /\ gamefile = NoGame
  /\ selectedID = invalidID
  /\ lastOp = Op("init", NoFault, << >>, "none")
  /\ before = Snapshot

GenNext ==
  \/ GenerateCall
  \/ GenerateIterateWhite
  \/ GenerateIterateBlack


\* ------------------------------------------------------------------------
\* The practice session: one action per event
\* ------------------------------------------------------------------------

SessionInit ==
  /\ inCheckmatePractice = FALSE
  /\ undoingIsLegal = FALSE
  /\ completedCheckmates = Undefined
  /\ listeners = FALSE
  /\ storage \in { Undefined } \cup
                 { Value(s) : s \in DistinctSeqs(SelectableIDs, MaxStored) }
  /\ gamefile = NoGame
  /\ selectedID \in SelectableIDs
  /\ lastOp = Op("init", NoFault, << >>, "none")
  /\ before = Snapshot

\* The user picks another checkmate in the practice menu.
SelectCheckmate ==
  \E id \in SelectableIDs :
    /\ id # selectedID
    /\ selectedID' = id
    /\ lastOp' = Op("select", NoFault, id, "none")
    /\ before' = Snapshot
    /\ UNCHANGED << inCheckmatePractice, undoingIsLegal, completedCheckmates,
                    listeners, storage, gamefile >>

\* checkmatepractice.startCheckmatePractice(id), with no game loaded.
StartCheckmatePractice ==
  \E id \in SelectableIDs :
    /\ ~gamefile.loaded
    /\ startCheckmatePractice(id, gamefile, "startCheckmatePractice")
    /\ before' = Snapshot
    /\ UNCHANGED << completedCheckmates, storage, selectedID >>

\* An engine game that is not a checkmate practice is loaded.
StartOtherEngineGame ==
  /\ ~gamefile.loaded
  /\ ~inCheckmatePractice
  /\ gamefile' = NewEngineGame(<< >>, FALSE)
  /\ lastOp' = Op("startOtherEngineGame", NoFault, << >>, "started")
  /\ before' = Snapshot
  /\ UNCHANGED << inCheckmatePractice, undoingIsLegal, completedCheckmates,
                  listeners, storage, selectedID >>

\* The game is unloaded: gameloader.unloadGame() ends in onGameUnload().
OnGameUnload ==
  /\ gamefile.loaded \/ inCheckmatePractice
  /\ gamefile' = NoGame
  /\ onGameUnload
  /\ lastOp' = Op("onGameUnload", NoFault, << >>, "none")
  /\ before' = Snapshot
  /\ UNCHANGED << completedCheckmates, storage, selectedID >>

\* guipractice asks for the list of beaten checkmates.
GetCompletedCheckmates ==
  /\ completedCheckmates' = getCompletedCheckmates(completedCheckmates, storage)
  /\ lastOp' = Op("getCompletedCheckmates", NoFault, << >>,
                  IF completedCheckmates.defined THEN "cached" ELSE "loaded")
  /\ before' = Snapshot
  /\ UNCHANGED << inCheckmatePractice, undoingIsLegal, listeners, storage,
                  gamefile, selectedID >>

\* eraseCheckmatePracticeProgress(), from the developer tools.
EraseCheckmatePracticeProgress ==
  /\ storage' = Undefined
  /\ completedCheckmates' = eraseCheckmatePracticeProgress(completedCheckmates)
  /\ lastOp' = Op("eraseCheckmatePracticeProgress", NoFault, << >>, "none")
  /\ before' = Snapshot
  /\ UNCHANGED << inCheckmatePractice, undoingIsLegal, listeners, gamefile,
                  selectedID >>

\* onEngineGameConclude()
OnEngineGameConclude ==
  LET done == onEngineGameConclude(inCheckmatePractice, gamefile,
                                   completedCheckmates, selectedID)
  IN /\ completedCheckmates' = done.list
     /\ storage' = IF done.effect = "marked" THEN done.list ELSE storage
     /\ lastOp' = Op("onEngineGameConclude", done.fault, done.id, done.effect)
     /\ before' = Snapshot
     /\ UNCHANGED << inCheckmatePractice, undoingIsLegal, listeners, gamefile,
                     selectedID >>

\* The player makes a ply and enginegame calls registerHumanMove().
HumanMove ==
  \E conclusion \in { NotConcluded } \cup Conclusions :
    LET played == [gamefile EXCEPT !.moves = @ + 1,
                                   !.gameConclusion = conclusion]
    IN /\ gamefile.loaded
       /\ ~isGameOver(gamefile)
       /\ isItOurTurn(gamefile)
       /\ gamefile.moves < MaxPlies
       /\ gamefile' = played
       /\ undoingIsLegal' =
            registerHumanMove(inCheckmatePractice, undoingIsLegal, played)
       /\ lastOp' = Op("registerHumanMove", NoFault, << >>, "none")
       /\ before' = Snapshot
       /\ UNCHANGED << inCheckmatePractice, completedCheckmates, listeners,
                       storage, selectedID >>

\* The engine makes a ply and enginegame calls registerEngineMove().
EngineMove ==
  \E conclusion \in { NotConcluded } \cup Conclusions :
    LET played == [gamefile EXCEPT !.moves = @ + 1,
                                   !.gameConclusion = conclusion]
    IN /\ gamefile.loaded
       /\ ~isGameOver(gamefile)
       /\ ~isItOurTurn(gamefile)
       /\ gamefile.moves < MaxPlies
       /\ gamefile' = played
       /\ undoingIsLegal' =
            registerEngineMove(inCheckmatePractice, undoingIsLegal, played)
       /\ lastOp' = Op("registerEngineMove", NoFault, << >>, "none")
       /\ before' = Snapshot
       /\ UNCHANGED << inCheckmatePractice, completedCheckmates, listeners,
                       storage, selectedID >>

\* The "guigameinfo-undoMove" event: undoMove() runs if it is registered.
UndoRequested ==
  /\ IF listeners /\ undoAllowed(inCheckmatePractice, undoingIsLegal, gamefile)
     THEN /\ undoingIsLegal' = undoMoveLegality(undoingIsLegal)
          /\ gamefile' = undoRewind(gamefile)
          /\ lastOp' = Op("undoMove", NoFault, << >>, "rewound")
     ELSE /\ UNCHANGED << undoingIsLegal, gamefile >>
          /\ lastOp' = Op("undoMove", NoFault, << >>, "none")
  /\ before' = Snapshot
  /\ UNCHANGED << inCheckmatePractice, completedCheckmates, listeners, storage,
                  selectedID >>

\* The "guigameinfo-restart" event: restartGame() runs if it is registered.
RestartRequested ==
  /\ IF listeners /\ inCheckmatePractice
     THEN \* gameloader.unloadGame() ends in onGameUnload(); then start again
          startCheckmatePractice(selectedID, NoGame, "restartGame")
     ELSE /\ UNCHANGED << inCheckmatePractice, undoingIsLegal, listeners, gamefile >>
          /\ lastOp' = Op("restartGame", NoFault, << >>, "none")
  /\ before' = Snapshot
  /\ UNCHANGED << completedCheckmates, storage, selectedID >>

Init == SessionInit /\ GenIdle /\ TabIdle

Next ==
  \/ SelectCheckmate
  \/ StartCheckmatePractice
  \/ StartOtherEngineGame
  \/ OnGameUnload
  \/ GetCompletedCheckmates
  \/ EraseCheckmatePracticeProgress
  \/ OnEngineGameConclude
  \/ HumanMove
  \/ EngineMove
  \/ UndoRequested
  \/ RestartRequested

vars == << sessionVars, genVars, tabVars >>

Spec == Init /\ [][Next /\ UNCHANGED << genVars, tabVars >>]_vars

SpecGen == GenInit /\ [][GenNext]_vars

\* The tab-title script on its own, nothing else having run.
TabInit == GenInit

SpecTab == TabInit /\ [][TabNext]_vars

\* ------------------------------------------------------------------------
\* Properties of the practice session and of the completion ledger
\* ------------------------------------------------------------------------

NoDuplicates(list) ==
  \A i, j \in 1..Len(list) : list[i] = list[j] => i = j

\* What the last operation found when it started.
WasActive == before.inCheckmatePractice
UndoPrecondition ==
  /\ before.inCheckmatePractice
  /\ before.undoingIsLegal
  /\ isItOurTurn(before.gamefile) \/ isGameOver(before.gamefile)
  /\ before.gamefile.moves >= 1
LedgerUnchanged ==
  /\ completedCheckmates = before.completedCheckmates
  /\ storage = before.storage

\* C1: with registerHumanMove delivered after each player ply and
\* registerEngineMove after each engine ply, undoingIsLegal is never true
\* while it is the engine's turn to move and the game is not over.
C1_NoUndoWhileEngineThinks ==
  ~( /\ undoingIsLegal
     /\ gamefile.loaded
     /\ ~isItOurTurn(gamefile)
     /\ ~isGameOver(gamefile) )

\* C1 witness: the player moved while undoing was legal, the game goes on,
\* and the undo has been withdrawn for the engine's turn.
C1_Witness ==
  /\ lastOp.op = "registerHumanMove"
  /\ inCheckmatePractice
  /\ before.undoingIsLegal
  /\ ~undoingIsLegal
  /\ ~isItOurTurn(gamefile)
  /\ ~isGameOver(gamefile)

\* C2: the session goes from Idle to Active only through
\* startCheckmatePractice (directly or via restart), and an unload from
\* Active always yields Idle with undoingIsLegal = FALSE.
C2_StartAndUnload ==
  /\ (~before.inCheckmatePractice /\ inCheckmatePractice)
       => lastOp.op \in { "startCheckmatePractice", "restartGame" }
  /\ (lastOp.op = "onGameUnload" /\ before.inCheckmatePractice)
       => (~inCheckmatePractice /\ ~undoingIsLegal)

\* C2 witness: a game in which undoing was legal has been unloaded.
C2_Witness ==
  /\ lastOp.op = "onGameUnload"
  /\ before.inCheckmatePractice
  /\ before.undoingIsLegal
  /\ ~inCheckmatePractice

\* C3: a successful undo rewinds exactly two plies when it is the player's
\* turn and at least 2 plies exist, and exactly one ply otherwise; with
\* exactly 2 plies and the player to move it leaves 0 plies.
C3_UndoRewinds ==
  (lastOp.op = "undoMove" /\ UndoPrecondition) =>
    /\ gamefile.moves =
         before.gamefile.moves -
           (IF isItOurTurn(before.gamefile) /\ before.gamefile.moves >= 2
            THEN 2 ELSE 1)
    /\ (before.gamefile.moves = 2 /\ isItOurTurn(before.gamefile))
         => gamefile.moves = 0

\* C3 witness: start, humanMove, engineMove, undoRequested: 2 plies, the
\* player to move, game not over; the undo has left 0 plies.
C3_Witness ==
  /\ lastOp.op = "undoMove"
  /\ UndoPrecondition
  /\ before.gamefile.moves = 2
  /\ isItOurTurn(before.gamefile)
  /\ ~isGameOver(before.gamefile)
  /\ gamefile.moves = 0

\* C7: onEngineGameConclude running while Active on a game whose
\* gameConclusion is false raises a fault and leaves the in-memory list and
\* the persisted value unchanged.
C7_ConcludeWithoutConclusion ==
  ( /\ lastOp.op = "onEngineGameConclude"
    /\ WasActive
    /\ before.gamefile.loaded
    /\ before.gamefile.gameConclusion = NotConcluded )
  => (lastOp.fault # NoFault /\ LedgerUnchanged)

\* C7 witness: the handler ran on an unconcluded practice game with a
\* loaded ledger, while the player's ID was not yet in it.
C7_Witness ==
  /\ lastOp.op = "onEngineGameConclude"
  /\ WasActive
  /\ before.gamefile.loaded
  /\ before.gamefile.gameConclusion = NotConcluded
  /\ before.completedCheckmates.defined
  /\ ~includes(before.completedCheckmates.value, selectedID)
  /\ lastOp.fault = ConclusionIsFalse

\* C8: when the engine game concludes while Active (the ledger having been
\* loaded), a win of the player's colour puts the ID the session was started
\* with into the ledger, in memory and persisted, whatever ID the UI reports
\* as selected; a win of the opponent leaves the ledger unchanged.
C8_WinMarksSessionPuzzle ==
  ( /\ lastOp.op = "onEngineGameConclude"
    /\ WasActive
    /\ before.gamefile.loaded
    /\ isGameOver(before.gamefile)
    /\ before.completedCheckmates.defined )
  => IF areWeColor(getVictor(before.gamefile.gameConclusion))
     THEN /\ completedCheckmates.defined
          /\ includes(completedCheckmates.value,
                      before.gamefile.checkmateSelectedID)
          /\ storage.defined
          /\ includes(storage.value, before.gamefile.checkmateSelectedID)
     ELSE LedgerUnchanged

\* C9: markCheckmateBeaten is idempotent on a loaded ledger: marking an ID
\* the list already holds leaves the list as it is, with one occurrence of
\* the ID, and persists that same list again; and neither the list nor the
\* persisted value ever holds an ID twice.
C9_MarkIdempotent ==
  /\ completedCheckmates.defined => NoDuplicates(completedCheckmates.value)
  /\ storage.defined => NoDuplicates(storage.value)
  /\ (lastOp.effect = "marked") =>
       /\ Cardinality({ i \in 1..Len(completedCheckmates.value) :
                          completedCheckmates.value[i] = lastOp.id }) = 1
       /\ storage = Value(completedCheckmates.value)
       /\ includes(before.completedCheckmates.value, lastOp.id) =>
            /\ completedCheckmates = before.completedCheckmates
            /\ before.storage.defined =>
                 Range(storage.value) = Range(before.storage.value)

\* C9 witness: an ID has been marked beaten that the list already held and
\* that an earlier save had persisted.
C9_Witness ==
  /\ lastOp.effect = "marked"
  /\ includes(before.completedCheckmates.value, lastOp.id)
  /\ before.storage.defined
  /\ includes(before.storage.value, lastOp.id)

\* C10: eraseCheckmatePracticeProgress before any getCompletedCheckmates
\* clears the persisted store, raises no fault and leaves the in-memory list
\* uninitialized; the store then stays cleared and the list uninitialized
\* until the next getCompletedCheckmates, which loads an empty list.
C10_EraseBeforeGet ==
  [][ /\ (lastOp'.op = "eraseCheckmatePracticeProgress"
            /\ ~completedCheckmates.defined)
          => /\ ~storage'.defined
             /\ ~completedCheckmates'.defined
             /\ lastOp'.fault = NoFault
      /\ (~completedCheckmates.defined /\ ~storage.defined)
          => IF lastOp'.op = "getCompletedCheckmates"
             THEN /\ completedCheckmates' = Value(<< >>)
                  /\ lastOp'.effect = "loaded"
             ELSE ~completedCheckmates'.defined /\ ~storage'.defined
    ]_vars

\* C10 witness: progress that was in storage was erased before any get, and
\* the first get has then loaded an empty list.
C10_Witness ==
  /\ lastOp.op = "getCompletedCheckmates"
  /\ lastOp.effect = "loaded"
  /\ ~before.storage.defined
  /\ completedCheckmates = Value(<< >>)
  /\ ~storage.defined

\* The session, the game and the ledger are as the last operation found them.
SessionUnchanged ==
  /\ inCheckmatePractice = before.inCheckmatePractice
  /\ undoingIsLegal = before.undoingIsLegal
  /\ gamefile = before.gamefile
  /\ LedgerUnchanged

\* C11: a rejected request changes nothing and raises no fault: an undoMove
\* whose precondition fails and a restartGame while Idle leave
\* inCheckmatePractice, undoingIsLegal, the game with its ply count and the
\* ledger as they were, and start no game.
C11_RejectedRequestIsNoOp ==
  /\ (lastOp.op = "undoMove" /\ ~UndoPrecondition)
       => (lastOp.fault = NoFault /\ SessionUnchanged)
  /\ (lastOp.op = "restartGame" /\ ~before.inCheckmatePractice)
       => (lastOp.fault = NoFault /\ SessionUnchanged)

\* C11 witness: undoMove ran in a practice game with plies played and the
\* player to move, while undoing was not legal, and did nothing.
C11_Witness ==
  /\ lastOp.op = "undoMove"
  /\ before.inCheckmatePractice
  /\ before.listeners
  /\ ~before.undoingIsLegal
  /\ isItOurTurn(before.gamefile)
  /\ before.gamefile.moves >= 2
  /\ gamefile.moves = before.gamefile.moves

\* C13: restartGame while Active, with a practice game loaded, unloads the
\* game and starts a new game with the ID of the session being restarted;
\* afterwards the session is Active with undoingIsLegal = FALSE and 0 plies,
\* whatever undoingIsLegal was.
C13_RestartKeepsPuzzle ==
  ( /\ lastOp.op = "restartGame"
    /\ before.inCheckmatePractice
    /\ before.listeners
    /\ before.gamefile.loaded )
  => /\ inCheckmatePractice
     /\ ~undoingIsLegal
     /\ gamefile.loaded
     /\ gamefile.moves = 0
     /\ gamefile.checkmateSelectedID = before.gamefile.checkmateSelectedID

\* C17: an undoMove that rewinds sets undoingIsLegal to FALSE; it goes from
\* FALSE to TRUE only when an engine move is registered with at least 2
\* plies or a player move that ends the game is registered; and an undoMove
\* that finds it FALSE rewinds nothing. Hence of two undo requests with no
\* move registered between them, the second is a no-op.
C17_UndoOncePerMove ==
  [][ /\ (lastOp'.op = "undoMove" /\ lastOp'.effect = "rewound")
          => ~undoingIsLegal'
      /\ (~undoingIsLegal /\ undoingIsLegal')
          => \/ (lastOp'.op = "registerEngineMove" /\ gamefile'.moves >= 2)
             \/ (lastOp'.op = "registerHumanMove" /\ isGameOver(gamefile'))
      /\ (~undoingIsLegal /\ lastOp'.op = "undoMove")
          => /\ lastOp'.effect = "none"
             /\ gamefile' = gamefile
             /\ ~undoingIsLegal'
    ]_vars

\* C17 witness: with 2 plies on the board and the player to move, undoing is
\* not legal, which only a rewinding undoMove brings about, and a second
\* undoMove has rewound nothing.
C17_Witness ==
  /\ lastOp.op = "undoMove"
  /\ lastOp.effect = "none"
  /\ before.inCheckmatePractice
  /\ before.listeners
  /\ ~before.undoingIsLegal
  /\ before.gamefile.moves = 2
  /\ ~isGameOver(before.gamefile)
  /\ gamefile.moves = 2

\* The IDs the persisted value holds, an absent value holding none.
storedIDs == IF storage.defined THEN Range(storage.value) ELSE {}

\* C18: getCompletedCheckmates reads storage on its first call only, a later
\* call returning the list as it is; and once loaded, after any sequence of
\* getCompletedCheckmates, markCheckmateBeaten and
\* eraseCheckmatePracticeProgress, the in-memory list and the persisted value
\* hold the same set of IDs.
C18_LedgerCoherent ==
  /\ completedCheckmates.defined
       => Range(completedCheckmates.value) = storedIDs
  /\ (lastOp.op = "getCompletedCheckmates" /\ before.completedCheckmates.defined)
       => (lastOp.effect = "cached"
           /\ completedCheckmates = before.completedCheckmates)

\* C18 witness: progress was erased while the loaded list held an ID that
\* was also persisted; the list is empty and the stored item is gone.
C18_Witness ==
  /\ lastOp.op = "eraseCheckmatePracticeProgress"
  /\ before.completedCheckmates.defined
  /\ Len(before.completedCheckmates.value) > 0
  /\ before.storage.defined
  /\ completedCheckmates = Value(<< >>)
  /\ ~storage.defined

\* C19: startCheckmatePractice sets inCheckmatePractice before the position
\* is generated, so a start that throws on an ID outside the catalogue
\* leaves the session Active, undoingIsLegal FALSE and the listeners
\* registered, with no game loaded; and inCheckmatePractice goes from TRUE
\* to FALSE only in onGameUnload.
C19_ActiveFromRequestToUnload ==
  [][ /\ (lastOp'.op \in { "startCheckmatePractice", "restartGame" }
            /\ lastOp'.fault # NoFault)
          => /\ inCheckmatePractice'
             /\ ~undoingIsLegal'
             /\ listeners'
             /\ ~gamefile'.loaded
      /\ (inCheckmatePractice /\ ~inCheckmatePractice')
          => lastOp'.op = "onGameUnload"
    ]_vars

\* C19 witness: an Idle session was asked to start an ID outside the
\* catalogue; the call has thrown and the session is Active without a game.
C19_Witness ==
  /\ lastOp.op = "startCheckmatePractice"
  /\ lastOp.fault # NoFault
  /\ ~before.inCheckmatePractice
  /\ inCheckmatePractice
  /\ listeners
  /\ ~undoingIsLegal
  /\ ~gamefile.loaded

\* ------------------------------------------------------------------------
\* Properties of the generated positions
\* ------------------------------------------------------------------------

Returned == genpc = "returned"

PieceTypes == { startingPosition[k] : k \in DOMAIN startingPosition }

\* The squares of the pieces of a type, of a colour.
squaresOfType(type) ==
  { k \in DOMAIN startingPosition : startingPosition[k] = type }
squaresOfColor(color) ==
  { k \in DOMAIN startingPosition :
      getPieceColorFromType(startingPosition[k]) = color }

\* The sum of the counts of the <count><type> groups of an ID, over the
\* groups of one type and over all of them.
RECURSIVE countOfType(_, _, _)
countOfType(list, i, type) ==
  IF i > Len(list) THEN 0
  ELSE (IF ShortToLong_Piece(entryLetters(list[i])) = type
        THEN parseInt(entryDigits(list[i])) ELSE 0)
       + countOfType(list, i + 1, type)

RECURSIVE countOfAll(_, _)
countOfAll(list, i) ==
  IF i > Len(list) THEN 0
  ELSE parseInt(entryDigits(list[i])) + countOfAll(list, i + 1)

groupTypes(list) ==
  { ShortToLong_Piece(entryLetters(list[i])) : i \in 1..Len(list) }

\* The groups of every ID of the catalogue, the types they name, and the
\* counts they ask for, computed once.
groupsOfID ==
  [id \in Range(validCheckmatesFlat) |-> matchPieceList(id)]

catalogueTypes ==
  UNION { groupTypes(groupsOfID[id]) : id \in Range(validCheckmatesFlat) }

countsOfID ==
  [id \in Range(validCheckmatesFlat) |->
     [type \in catalogueTypes |-> countOfType(groupsOfID[id], 1, type)]]

totalOfID ==
  [id \in Range(validCheckmatesFlat) |-> countOfAll(groupsOfID[id], 1)]

\* C4: every position returned for a catalogue ID holds, for each
\* <count><type> group of the ID, exactly the count of pieces of that type
\* (groups of one type adding up) and pieces of no other type, and no two
\* pieces share a square: the occupied squares number the sum of all counts.
C4_PieceCounts ==
  Returned =>
    /\ PieceTypes \subseteq catalogueTypes
    /\ \A type \in catalogueTypes :
         Cardinality(squaresOfType(type)) = countsOfID[checkmateID][type]
    /\ Cardinality(DOMAIN startingPosition) = totalOfID[checkmateID]
    /\ Cardinality({ getCoordsFromKey(k) : k \in DOMAIN startingPosition })
         = totalOfID[checkmateID]

\* C4 witness: a position of five pieces in four groups, two of them groups
\* of bishops, has been returned.
C4_Witness ==
  /\ Returned
  /\ Len(piecelist) = 5
  /\ Cardinality(DOMAIN startingPosition) = 6
  /\ Cardinality(squaresOfType("bishopsW")) = 3

\* C5: no black piece shares a rank, a file or a diagonal with a white
\* piece, nor stands at a slope-2 offset from a white knightrider; at every
\* point of the generation, hence in every position returned.
C5_BlackNotInSight ==
  \A b \in squaresOfColor("black"), w \in squaresOfColor("white") :
    LET bc == getCoordsFromKey(b)
        wc == getCoordsFromKey(w)
        dx == abs(bc[1] - wc[1])
        dy == abs(bc[2] - wc[2])
    IN /\ bc[1] # wc[1]
       /\ bc[2] # wc[2]
       /\ dx # dy
       /\ startingPosition[w] = "knightridersW" => (dx # 2 * dy /\ 2 * dx # dy)

\* C5 witness: a position with three knightriders and the black king has
\* been returned.
C5_Witness ==
  /\ Returned
  /\ Cardinality(squaresOfType("knightridersW")) = 3
  /\ Cardinality(squaresOfColor("black")) = 1

\* The counts of the groups of bishops of an ID, in order.
RECURSIVE bishopGroups(_, _)
bishopGroups(list, i) ==
  IF i > Len(list) THEN << >>
  ELSE (IF ShortToLong_Piece(entryLetters(list[i])) = "bishopsW"
        THEN << parseInt(entryDigits(list[i])) >> ELSE << >>)
       \o bishopGroups(list, i + 1)

\* The bishops on the squares of one colour: (x + y) mod 2 = colour.
bishopsOnColor(color) ==
  { k \in squaresOfType("bishopsW") :
      LET c == getCoordsFromKey(k) IN (c[1] + c[2]) % 2 = color }

\* The counts of the groups of bishops of every ID of the catalogue,
\* computed once.
bishopGroupsOfID ==
  [id \in Range(validCheckmatesFlat) |-> bishopGroups(groupsOfID[id], 1)]

InvalidCheckmateThrown ==
  genpc = "thrown: User tried to play invalid checkmate practice."

\* C12: startCheckmatePractice with an ID that is not in the catalogue throws
\* before any piece is placed and gameloader.startEngineGame is never
\* called; and no partial position reaches the engine: a game is loaded only
\* once the generator has returned the complete position of a catalogue ID.
C12_InvalidIDThrowsBeforePlacement ==
  /\ (genpc # "idle" /\ ~includes(validCheckmatesFlat, checkmateID))
       => /\ InvalidCheckmateThrown
          /\ startingPosition = EmptyPosition
          /\ ~gamefile.loaded
  /\ gamefile.loaded
       => /\ Returned
          /\ includes(validCheckmatesFlat, checkmateID)
          /\ gamefile.checkmateSelectedID = checkmateID
          /\ Cardinality(DOMAIN startingPosition) = totalOfID[checkmateID]

\* C12 witness: startCheckmatePractice was called with an ID outside the
\* catalogue and the generator has thrown.
C12_Witness ==
  /\ InvalidCheckmateThrown
  /\ checkmateID = invalidID
  /\ inCheckmatePractice
  /\ ~gamefile.loaded

\* Every square the white branch can draw and every square the black branch
\* can draw: Math.random() taking each of the n values k / n that give
\* Math.floor(Math.random() * n) its n results.
WhiteWindow ==
  LET n == IF blackroyalnearer THEN 7 ELSE 11
      offset == IF blackroyalnearer THEN 3 ELSE 5
  IN { << randomFloor(kx, n, n) - offset, randomFloor(ky, n, n) - offset >> :
         kx \in 0..(n - 1), ky \in 0..(n - 1) }
BlackBand ==
  LET n == IF blackroyalnearer THEN 17 ELSE 35
  IN { << randomFloor(kx, 3, 3) + (IF blackroyalnearer THEN 8 ELSE 12),
          randomFloor(ky, n, n) - (IF blackroyalnearer THEN 9 ELSE 17) >> :
         kx \in 0..2, ky \in 0..(n - 1) }

C15_AcceptedIffEmptyAndColour ==
  (genpc = "while" /\ getPieceColorFromType(piece) = "white"
                   /\ ~blackpieceplaced) =>
    \A c \in WhiteWindow :
      whiteSquareAccepted(startingPosition, piece, c[1], c[2],
                          whitebishopparity)
      <=> /\ ~occupied(startingPosition, getKeyFromCoords(c[1], c[2]))
          /\ piece = "bishopsW" => (c[1] + c[2]) % 2 = whitebishopparity

\* C16: every black piece has x in 12..14 (8..10 under royalNearer) and a y
\* of the band, and the band is centred on the origin: its y values are
\* symmetric about 0 and number 35 (17 under royalNearer).
C16_BlackBandCentred ==
  (genpc \in { "while", "returned" }) =>
    LET ys == { c[2] : c \in BlackBand }
    IN /\ Cardinality(ys) = IF blackroyalnearer THEN 17 ELSE 35
       /\ \A y \in ys : -y \in ys
       /\ \A k \in squaresOfColor("black") :
            /\ getCoordsFromKey(k)[1] \in
                 (IF blackroyalnearer THEN 8..10 ELSE 12..14)
            /\ getCoordsFromKey(k)[2] \in ys

\* ------------------------------------------------------------------------
\* Properties of the tab-title script
\* ------------------------------------------------------------------------

\* C20: whenever flashTabNameYOUR_MOVE runs while the page is not hidden, the
\* title is the original title afterwards and no timer is set for a further
\* toggle.
C20_VisiblePageStopsFlashing ==
  (tabOp.ranFlash /\ ~tabOp.hidden) =>
    /\ documentTitle = originalDocumentTitle
    /\ ~tabOp.scheduled

====
